---- MODULE Spec2Model ----
(***************************************************************************)
(* Model of st_flights_dashboard.py: the cached/remote dataset loader      *)
(* (load_data), the Streamlit script reruns that call it through a         *)
(* process-wide singleton, and the aggregation functions (filter_data,     *)
(* calculate_data_by_hour, group_data_by_terminal).                        *)
(*                                                                         *)
(* Encoding of Python values:                                              *)
(*   None / NaN / NaT      the empty tuple <<>>                            *)
(*   a present value x     the one-element tuple <<x>>                     *)
(*   a string as text      a sequence of character codes (file names)      *)
(***************************************************************************)
EXTENDS Integers, Sequences, FiniteSets, TLC

VARIABLES
    \* ---- aggregator (SpecAgg) ----
    data,       \* the DataFrame handed to the aggregation functions
    call,       \* the last aggregation call: [op, hour, terminal]
    result,     \* what that call returned
    \* ---- loader and script reruns (SpecLoad) ----
    files,      \* the cache directory: file name -> CSV content
    now,        \* the wall clock: [date, tod]
    proc,       \* the server process: singleton cache and per-process counters
    sess,       \* the browser sessions: session state and the execution under way
    last,       \* the execution of load_data's body that the last step advanced
    started,    \* how many executions of the body have begun, in all processes
    view        \* the page that the step just taken drew: charts or an exception

vars == <<data, call, result, files, now, proc, sess, last, started, view>>

----------------------------------------------------------------------------
(* Optional values *)

None == <<>>

Some(x) == <<x>>

\* Python truthiness of an Optional[int]: None and 0 are falsy.
TruthyInt(x) == x # None /\ x[1] # 0

\* Python truthiness of an Optional[str]: None and "" are falsy.
TruthyStr(x) == x # None /\ x[1] # ""

----------------------------------------------------------------------------
(* Program constants *)

SliderMin == 0

SliderMax == 23

Bins == 60

RangeLo == 0

RangeHi == 60

(* Bounds of the model *)

MaxRows == 2

----------------------------------------------------------------------------
(* Flight records: dep_time is NaT or <<[hour, minute]>>, dep_terminal and  *)
(* flight_iata are NaN or <<string>>.                                       *)

DepTimes == {None, Some([hour |-> 0, minute |-> 5]), Some([hour |-> 10, minute |-> 59])}

Terminals == {"B", "2"}

FlightIds == {"AA1", "DL2"}

FlightRecords ==
    [dep_time : DepTimes,
     dep_terminal : {None} \cup {Some(t) : t \in Terminals},
     flight_iata : {Some(f) : f \in FlightIds}]

SeqsUpTo(S, n) == UNION {[1..k -> S] : k \in 0..n}

DataFrames == SeqsUpTo(FlightRecords, MaxRows)

HourArgs == {None} \cup {Some(h) : h \in SliderMin..SliderMax}

TerminalArgs == {None} \cup {Some(t) : t \in Terminals}

----------------------------------------------------------------------------
(* Aggregation functions *)

\* Series.dt.hour == h : NaT gives NaN, and NaN == h is False.
HourEquals(r, h) == r.dep_time # None /\ r.dep_time[1].hour = h

\* Series == t : NaN == t is False.
TerminalEquals(r, t) == r.dep_terminal # None /\ r.dep_terminal[1] = t

FilterHour(df, departure_hour) ==
    IF TruthyInt(departure_hour)
    THEN SelectSeq(df, LAMBDA r : HourEquals(r, departure_hour[1]))
    ELSE df

FilterTerminal(df, terminal_selected) ==
    IF TruthyStr(terminal_selected)
    THEN SelectSeq(df, LAMBDA r : TerminalEquals(r, terminal_selected[1]))
    ELSE df

filter_data(df, departure_hour, terminal_selected) ==
    FilterTerminal(FilterHour(df, departure_hour), terminal_selected)

\* np.histogram(a, bins=60, range=(0, 60)): values outside [0, 60] and NaN are
\* dropped, a value x falls in bin floor(x), and the right edge 60 belongs to
\* the last bin.
BinOf(x) == IF x = RangeHi THEN Bins - 1 ELSE x

\* Variant: a bucket counts distinct flights instead of rows.
np_histogram_DistinctFlights(df) ==
    [b \in 0..(Bins - 1) |->
        Cardinality({df[i].flight_iata : i \in {j \in DOMAIN df :
            /\ df[j].dep_time # None
            /\ df[j].dep_time[1].minute >= RangeLo
            /\ df[j].dep_time[1].minute <= RangeHi
            /\ BinOf(df[j].dep_time[1].minute) = b}})]

np_histogram(df) ==
    [b \in 0..(Bins - 1) |->
        Cardinality({i \in DOMAIN df :
            /\ df[i].dep_time # None
            /\ df[i].dep_time[1].minute >= RangeLo
            /\ df[i].dep_time[1].minute <= RangeHi
            /\ BinOf(df[i].dep_time[1].minute) = b})]

\* The returned frame {"minute": range(60), "departures": hist} as the map
\* minute -> departures.
calculate_data_by_hour(df, departure_hour, terminal_selected) ==
    np_histogram(filter_data(df, departure_hour, terminal_selected))

\* groupby(["dep_terminal"]) drops NaN keys; nunique ignores NaN values.
GroupKeys(df) == {df[i].dep_terminal[1] : i \in {j \in DOMAIN df : df[j].dep_terminal # None}}

NUnique(df, t) ==
    Cardinality({df[i].flight_iata[1] :
        i \in {j \in DOMAIN df : TerminalEquals(df[j], t) /\ df[j].flight_iata # None}})

group_data_by_terminal(df, departure_hour) ==
    LET d == filter_data(df, departure_hour, None)
    IN  {[dep_terminal |-> t, count_flights |-> NUnique(d, t)] : t \in GroupKeys(d)}

----------------------------------------------------------------------------
(* SpecAgg: a dataset drawn from the bounded set, and one call of an        *)
(* aggregation function on it per behaviour (the functions are pure, so a  *)
(* second call on the same frame starts from the same state).              *)

InitAgg ==
    /\ data \in DataFrames
    /\ call = [op |-> "none", hour |-> None, terminal |-> None]
    /\ result = None
    /\ files = <<>>
    /\ now = <<>>
    /\ proc = <<>>
    /\ sess = <<>>
    /\ started = 0
    /\ last = <<>>
    /\ view = <<>>

CallFilterData ==
    \E h \in HourArgs, t \in TerminalArgs :
        /\ call.op = "none"
        /\ call' = [op |-> "filter_data", hour |-> h, terminal |-> t]
        /\ result' = filter_data(data, h, t)
        /\ UNCHANGED <<data, files, now, proc, sess, last, started, view>>

CallCalculateDataByHour ==
    \E h \in HourArgs, t \in TerminalArgs :
        /\ call.op = "none"
        /\ call' = [op |-> "calculate_data_by_hour", hour |-> h, terminal |-> t]
        /\ result' = calculate_data_by_hour(data, h, t)
        /\ UNCHANGED <<data, files, now, proc, sess, last, started, view>>

CallGroupDataByTerminal ==
    \E h \in HourArgs :
        /\ call.op = "none"
        /\ call' = [op |-> "group_data_by_terminal", hour |-> h, terminal |-> None]
        /\ result' = group_data_by_terminal(data, h)
        /\ UNCHANGED <<data, files, now, proc, sess, last, started, view>>

NextAgg ==
    \/ CallFilterData
    \/ CallCalculateDataByHour
    \/ CallGroupDataByTerminal

SpecAgg == InitAgg /\ [][NextAgg]_vars

----------------------------------------------------------------------------
(* Text: a Python str is a sequence of character codes.                     *)

\* "lax_flights_" and ".csv" of csv_filename = "lax_flights_*.csv"
GlobPrefix == <<108, 97, 120, 95, 102, 108, 105, 103, 104, 116, 115, 95>>

GlobSuffix == <<46, 99, 115, 118>>

\* airport_iata = "LAX"
AirportIata == <<76, 65, 88>>

\* "_flights_"
FlightsInfix == <<95, 102, 108, 105, 103, 104, 116, 115, 95>>

\* str.lower() on ASCII text
Lower(s) == [i \in DOMAIN s |-> IF s[i] >= 65 /\ s[i] <= 90 THEN s[i] + 32 ELSE s[i]]

\* Python's str ordering: by the first differing code, a proper prefix is less.
LexLess(a, b) ==
    LET n == IF Len(a) < Len(b) THEN Len(a) ELSE Len(b)
        diff == {i \in 1..n : a[i] # b[i]}
    IN  IF diff = {}
        THEN Len(a) < Len(b)
        ELSE LET k == CHOOSE i \in diff : \A j \in diff : i <= j
             IN  a[k] < b[k]

\* max() of a non-empty list of str
LexMax(S) == CHOOSE n \in S : \A m \in S : m = n \/ LexLess(m, n)

\* glob of "lax_flights_*.csv": the name starts with the prefix and ends with
\* the suffix, the two not overlapping.
GlobMatch(name) ==
    /\ Len(name) >= Len(GlobPrefix) + Len(GlobSuffix)
    /\ SubSeq(name, 1, Len(GlobPrefix)) = GlobPrefix
    /\ SubSeq(name, Len(name) - Len(GlobSuffix) + 1, Len(name)) = GlobSuffix

\* Variant: the slice name[-11:-4], one character short of the date.
DateSlice_OffByOne(name) == SubSeq(name, Len(name) - 10, Len(name) - 4)

\* name[-12:-4]
DateSlice(name) == SubSeq(name, Len(name) - 11, Len(name) - 4)

----------------------------------------------------------------------------
(* Dates <<year, month, day>> and their "%Y%m%d" text.                      *)

IsLeap(y) == (y % 4 = 0 /\ y % 100 # 0) \/ y % 400 = 0

DaysInMonth(y, m) ==
    IF m = 2 THEN (IF IsLeap(y) THEN 29 ELSE 28)
    ELSE IF m \in {4, 6, 9, 11} THEN 30 ELSE 31

NextDay(d) ==
    IF d[3] < DaysInMonth(d[1], d[2]) THEN <<d[1], d[2], d[3] + 1>>
    ELSE IF d[2] < 12 THEN <<d[1], d[2] + 1, 1>>
    ELSE <<d[1] + 1, 1, 1>>

DateLess(a, b) ==
    \/ a[1] < b[1]
    \/ a[1] = b[1] /\ a[2] < b[2]
    \/ a[1] = b[1] /\ a[2] = b[2] /\ a[3] < b[3]

Pow10(k) == IF k = 0 THEN 1 ELSE IF k = 1 THEN 10 ELSE IF k = 2 THEN 100 ELSE 1000

\* the decimal digits of n, zero-padded to width w
Digits(n, w) == [i \in 1..w |-> 48 + ((n \div Pow10(w - i)) % 10)]

\* date.strftime("%Y%m%d")
strftime(d) == Digits(d[1], 4) \o Digits(d[2], 2) \o Digits(d[3], 2)

\* The code points of the zero of every run of Unicode decimal digits (category
\* Nd, Unicode 14): the regex class \d and int() accept them all.
DecimalZeroes ==
    {48, 1632, 1776, 1984, 2406, 2534, 2662, 2790, 2918, 3046, 3174, 3302, 3430, 3558,
     3664, 3792, 3872, 4160, 4240, 6112, 6160, 6470, 6608, 6784, 6800, 6992, 7088, 7232,
     7248, 42528, 43216, 43264, 43472, 43504, 43600, 44016, 65296, 66720, 68912, 69734,
     69872, 69942, 70096, 70384, 70736, 70864, 71248, 71360, 71472, 71904, 72016, 72784,
     73040, 73120, 92768, 92864, 93008, 120782, 120792, 120802, 120812, 120822, 123200,
     123632, 125264, 130032}

\* \d
IsDecimal(c) == \E z \in DecimalZeroes : c >= z /\ c <= z + 9

DecimalValue(c) == LET z == CHOOSE z \in DecimalZeroes : c >= z /\ c <= z + 9 IN c - z

\* the character at position i, 0 past the end of the text
At(text, i) == IF i >= 1 /\ i <= Len(text) THEN text[i] ELSE 0

InRange(c, lo, hi) == c >= lo /\ c <= hi

\* %m at position p: 1[0-2] | 0[1-9] | [1-9], in the order the regex tries them
MonthMatches(text, p) ==
    (IF At(text, p) = 49 /\ InRange(At(text, p + 1), 48, 50)
     THEN <<[len |-> 2, val |-> 10 + At(text, p + 1) - 48]>> ELSE <<>>)
    \o (IF At(text, p) = 48 /\ InRange(At(text, p + 1), 49, 57)
        THEN <<[len |-> 2, val |-> At(text, p + 1) - 48]>> ELSE <<>>)
    \o (IF InRange(At(text, p), 49, 57)
        THEN <<[len |-> 1, val |-> At(text, p) - 48]>> ELSE <<>>)

\* %d at position p: 3[01] | [12]\d | 0[1-9] | [1-9] | " "[1-9]; the first that
\* matches, as nothing follows %d in the format
DayMatches(text, p) ==
    IF At(text, p) = 51 /\ InRange(At(text, p + 1), 48, 49)
    THEN <<[len |-> 2, val |-> 30 + At(text, p + 1) - 48]>>
    ELSE IF InRange(At(text, p), 49, 50) /\ IsDecimal(At(text, p + 1))
    THEN <<[len |-> 2, val |-> (At(text, p) - 48) * 10 + DecimalValue(At(text, p + 1))]>>
    ELSE IF At(text, p) = 48 /\ InRange(At(text, p + 1), 49, 57)
    THEN <<[len |-> 2, val |-> At(text, p + 1) - 48]>>
    ELSE IF InRange(At(text, p), 49, 57)
    THEN <<[len |-> 1, val |-> At(text, p) - 48]>>
    ELSE IF At(text, p) = 32 /\ InRange(At(text, p + 1), 49, 57)
    THEN <<[len |-> 2, val |-> At(text, p + 1) - 48]>>
    ELSE <<>>

\* dt.datetime.strptime(text, "%Y%m%d").date(); None stands for the ValueError
\* that the bare except of load_data swallows. The format's regex
\* (\d\d\d\d)(1[0-2]|0[1-9]|[1-9])(3[01]|[12]\d|0[1-9]|[1-9]| [1-9]) is matched
\* at the start of the text; text left over after the match, and a date that
\* does not exist, are errors.
strptime(text) ==
    IF \E i \in 1..4 : ~IsDecimal(At(text, i))
    THEN None
    ELSE LET y == DecimalValue(text[1]) * 1000 + DecimalValue(text[2]) * 100
                    + DecimalValue(text[3]) * 10 + DecimalValue(text[4])
             months == SelectSeq(MonthMatches(text, 5),
                                 LAMBDA m : DayMatches(text, 5 + m.len) # <<>>)
         IN  IF months = <<>>
             THEN None
             ELSE LET m == months[1]
                      d == DayMatches(text, 5 + m.len)[1]
                  IN  IF /\ 4 + m.len + d.len = Len(text)
                         /\ y >= 1
                         /\ d.val <= DaysInMonth(y, m.val)
                      THEN Some(<<y, m.val, d.val>>)
                      ELSE None

\* f"{airport_iata.lower()}_flights_{date_today.strftime('%Y%m%d')}.csv"
CsvNameFor(airport_iata, d) ==
    Lower(airport_iata) \o FlightsInfix \o strftime(d) \o GlobSuffix

----------------------------------------------------------------------------
(* Frames: [columns, rows]; a row maps each column to a value. A timestamp  *)
(* is <<"datetime", y, m, d, tod>> as a datetime and <<"str", y, m, d, tod>>*)
(* as the text that to_csv writes and the API sends.                        *)

DatetimeOf(t) == <<"datetime", t.date[1], t.date[2], t.date[3], t.tod>>

\* str(datetime), as to_csv renders a datetime cell
ToText(v) == IF v[1] = "datetime" THEN <<"str", v[2], v[3], v[4], v[5]>> ELSE v

\* pd.to_datetime on a cell: text is parsed, a datetime is kept
ToDatetimeCell(v) == IF v[1] = "str" THEN <<"datetime", v[2], v[3], v[4], v[5]>> ELSE v

\* pd.DataFrame(response): the columns are the keys of the records
DataFrameOf(response) ==
    [columns |-> IF response = <<>> THEN {} ELSE DOMAIN response[1],
     rows |-> response]

\* data[col] = scalar
SetColumn(df, col, v) ==
    [columns |-> df.columns \cup {col},
     rows |-> [i \in DOMAIN df.rows |->
                 [c \in df.columns \cup {col} |-> IF c = col THEN v ELSE df.rows[i][c]]]]

\* data[col] = pd.to_datetime(data[col]), for a column that exists
ConvertColumn(df, col) ==
    [columns |-> df.columns,
     rows |-> [i \in DOMAIN df.rows |->
                 [c \in df.columns |-> IF c = col THEN ToDatetimeCell(df.rows[i][c])
                                                  ELSE df.rows[i][c]]]]

\* A file is its header line, its whole lines after the header, and what
\* follows them: nothing, or bytes that are the end of a longer content
\* written to the same path earlier ("unparsable": the parser refuses them,
\* "stray row": it takes them for one more row).
\* data.to_csv(path, index=False), once the file is closed: the header and
\* every cell as text
to_csv(df) ==
    [header |-> df.columns,
     lines |-> [i \in DOMAIN df.rows |-> [c \in df.columns |-> ToText(df.rows[i][c])]],
     rest |-> ""]

\* to_csv has opened the path for writing: the file exists and holds 0 bytes
EmptyFile == [header |-> {}, lines |-> <<>>, rest |-> ""]

\* The file while to_csv is under way: 0 bytes (k = 0), or the header and the
\* first k - 1 lines, flushed while the rest is still in the writer's buffer.
TornCsv(csv, k) ==
    IF k = 0 THEN EmptyFile
    ELSE [header |-> csv.header, lines |-> SubSeq(csv.lines, 1, k - 1), rest |-> ""]

TornPoints(csv) == 0..Len(csv.lines)

\* content a holds more bytes than content b (contents of the same shape are
\* of the same length: the cells are dates and codes of fixed width)
Longer(a, b) ==
    \/ Len(a.lines) > Len(b.lines)
    \/ Len(a.lines) = Len(b.lines) /\ Cardinality(a.header) > Cardinality(b.header)

Garbles == {"unparsable", "stray row"}

\* The file after the writer of `mine` has written it from offset 0 and
\* closed, the file holding `cur` then: a longer `cur`, written by another
\* thread since this writer opened the path, keeps its end.
ClosedCsv(cur, mine, garble) == IF Longer(cur, mine) THEN [mine EXCEPT !.rest = garble] ELSE mine

\* the row the parser makes of bytes that are not a line of the file
StrayRow(header) == [c \in header |-> <<"str", "?">>]

\* pd.read_csv(path) of a file the parser accepts: the cells stay text
read_csv(csv) ==
    [columns |-> csv.header,
     rows |-> IF csv.rest = "stray row" THEN csv.lines \o <<StrayRow(csv.header)>>
              ELSE csv.lines]

----------------------------------------------------------------------------
(* The remote API and the clock.                                            *)
(* Midnight starts the next day (up to MaxDays days after the first); it    *)
(* can happen while a request to the API is under way.                      *)

\* days the clock can move past StartDate
MaxDays == 1

\* executions of load_data's body in a behaviour
MaxBodyRuns == 2

StartDate == <<2022, 12, 31>>

PriorDate == <<2022, 12, 30>>

RECURSIVE DaysAfter(_, _)
DaysAfter(d, k) == IF k = 0 THEN d ELSE DaysAfter(NextDay(d), k - 1)

LastDate == DaysAfter(StartDate, MaxDays)

Text(s) == <<"str", s>>

\* One record of the schedules response, departing on date d.
ApiRecord(d, tod, flight) ==
    [dep_time |-> <<"str", d[1], d[2], d[3], tod>>, flight_iata |-> Text(flight),
     dep_terminal |-> Text("B"), airline_iata |-> Text("AA")]

\* What requests.get(...) and result.json() can produce on date d: an
\* exception of the transport, a body that is not JSON, or a JSON object.
ApiOutcomes(d) ==
    { [kind |-> "ConnectionError", body |-> <<>>],
      [kind |-> "JSONDecodeError", body |-> <<>>],
      [kind |-> "json", body |-> [error |-> Some("unknown_api_key")]],
      [kind |-> "json", body |-> [response |-> None]],
      [kind |-> "json", body |-> [response |-> Some(<<>>)]],
      [kind |-> "json", body |-> [response |-> Some(<<ApiRecord(d, 0, "AA1")>>)]] }

\* dict.get("response")
GetResponse(body) == IF "response" \in DOMAIN body THEN body["response"] ELSE None

----------------------------------------------------------------------------
(* load_data: one execution of the body, as a record of its locals and of   *)
(* what it did. The execution has up to three parts, between which other    *)
(* threads run: lines 25-42 up to the request (LoadBegin), lines 43-51 once *)
(* the request has ended, up to to_csv having opened today's file           *)
(* (LoadEnd), and lines 51-62 from the file's content being written         *)
(* (LoadClose). With a cache file of today the first part is the whole      *)
(* execution; without a response to store the second part ends it.          *)

Raise(rec, exc) == [rec EXCEPT !.outcome = "raised", !.error = exc]

\* text that pd.to_datetime parses, or a datetime
IsDateCell(v) == v[1] = "datetime" \/ (v[1] = "str" /\ Len(v) = 5)

\* lines 59-62: line 59 converts dep_time, then line 60 converts
\* timestamp_api_call. data[col] raises KeyError on a frame without the
\* column, pd.to_datetime raises a ValueError on a cell that is no date.
Normalize(df, rec) ==
    IF "dep_time" \notin df.columns
    THEN Raise(rec, "KeyError")
    ELSE IF \E i \in DOMAIN df.rows : ~IsDateCell(df.rows[i]["dep_time"])
    THEN Raise(rec, "ValueError")
    ELSE IF "timestamp_api_call" \notin df.columns
    THEN Raise(rec, "KeyError")
    ELSE IF \E i \in DOMAIN df.rows : ~IsDateCell(df.rows[i]["timestamp_api_call"])
    THEN Raise(rec, "ValueError")
    ELSE [rec EXCEPT !.outcome = "returned",
                     !.ret = Some(ConvertColumn(ConvertColumn(df, "dep_time"),
                                                "timestamp_api_call"))]

\* lines 26-31
LatestCsvName(fs) ==
    LET matches == {n \in DOMAIN fs : GlobMatch(n)}
    IN  IF matches = {} THEN None
        ELSE IF strptime(DateSlice(LexMax(matches))) = None THEN None
        ELSE Some(LexMax(matches))

LatestCsvDate(fs) ==
    LET matches == {n \in DOMAIN fs : GlobMatch(n)}
    IN  IF matches = {} THEN None ELSE strptime(DateSlice(LexMax(matches)))

\* Variant: the stamp is taken when the request has ended.
TimestampApiCall_AfterCall(issued, ended) == ended

\* lines 37, 50: the stamp is dt.datetime.now() of line 37, before the request
TimestampApiCall(issued, ended) == issued

\* Variant: with no file to read, an empty frame is returned.
ReadLatest_EmptyFrame(fs, latest_csv_name, rec) ==
    IF latest_csv_name = None
    THEN [rec EXCEPT !.outcome = "returned", !.ret = Some([columns |-> {}, rows |-> <<>>])]
    ELSE IF fs[latest_csv_name[1]].header = {}
    THEN Raise([rec EXCEPT !.read = latest_csv_name], "EmptyDataError")
    ELSE IF fs[latest_csv_name[1]].rest = "unparsable"
    THEN Raise([rec EXCEPT !.read = latest_csv_name], "ParserError")
    ELSE Normalize(read_csv(fs[latest_csv_name[1]]),
                   [rec EXCEPT !.read = latest_csv_name])

\* lines 34, 47: pd.read_csv(latest_csv_name), of the file as it is at that
\* moment: a file of 0 bytes raises EmptyDataError, bytes that are no CSV
\* raise ParserError
ReadLatest(fs, latest_csv_name, rec) ==
    IF latest_csv_name = None
    THEN Raise(rec, "ValueError")
    ELSE IF fs[latest_csv_name[1]].header = {}
    THEN Raise([rec EXCEPT !.read = latest_csv_name], "EmptyDataError")
    ELSE IF fs[latest_csv_name[1]].rest = "unparsable"
    THEN Raise([rec EXCEPT !.read = latest_csv_name], "ParserError")
    ELSE Normalize(read_csv(fs[latest_csv_name[1]]),
                   [rec EXCEPT !.read = latest_csv_name])

\* line 50: the value that data["timestamp_api_call"] is given
Stamped(rec) == [rec EXCEPT !.stamp = Some(TimestampApiCall(rec.issued[1], rec.ended[1]))]

\* lines 49-50: the frame of the response, stamped
StampedFrame(rec) ==
    SetColumn(DataFrameOf(rec.response[1]), "timestamp_api_call", rec.stamp[1])

\* lines 49-51, up to to_csv having opened the file named for date_today of
\* line 25: the file is created or cut to 0 bytes, and is left as TornCsv
\* says until the writer closes it
OpenCsv(fs, rec, torn) ==
    LET name == CsvNameFor(AirportIata, rec.date_today)
        fs2 == [n \in DOMAIN fs \cup {name} |->
                  IF n = name THEN TornCsv(to_csv(StampedFrame(Stamped(rec))), torn)
                  ELSE fs[n]]
    IN  [Stamped(rec) EXCEPT !.wrote = Some(name), !.outcome = "writing", !.fs = fs2,
                    !.before = [n \in DOMAIN fs \ {name} |-> fs[n]]]

\* lines 51-62: to_csv writes the content and closes the file, then the time
\* columns are converted and the frame is returned
LoadClose(fs, rec, garble) ==
    LET name == rec.wrote[1]
        fs2 == [n \in DOMAIN fs |->
                  IF n = name THEN ClosedCsv(fs[n], to_csv(StampedFrame(rec)), garble)
                  ELSE fs[n]]
    IN  Normalize(StampedFrame(rec),
                  [rec EXCEPT !.fs = fs2, !.before = [n \in DOMAIN fs \ {name} |-> fs[n]]])

\* lines 25-42: t25 is the clock at dt.date.today(), t37 the clock at
\* dt.datetime.now(); fs is the directory that glob scans, `scanned` the
\* names glob finds.
LoadBegin(fs, t25, t37) ==
    LET rec == [latest_csv_name |-> LatestCsvName(fs),
                latest_csv_date |-> LatestCsvDate(fs),
                date_today |-> t25.date,
                scanned |-> {n \in DOMAIN fs : GlobMatch(n)},
                requested |-> "none",
                response |-> None,
                api_calls |-> 0,
                issued |-> None,
                ended |-> None,
                stamp |-> None,
                read |-> None,
                wrote |-> None,
                before |-> fs,
                fs |-> fs,
                outcome |-> "none",
                error |-> "",
                ret |-> None]
    IN  IF rec.latest_csv_date = Some(rec.date_today)
        THEN ReadLatest(fs, rec.latest_csv_name, rec)
        ELSE [rec EXCEPT !.api_calls = rec.api_calls + 1,
                         !.issued = Some(DatetimeOf(t37)),
                         !.outcome = "waiting"]

\* lines 42-51: the request of the execution rec ends with api at the time
\* `ended`; fs is the directory at that time.
LoadEnd(fs, rec, api, ended, torn) ==
    LET here == [rec EXCEPT !.requested = api.kind,
                            !.response = IF api.kind = "json" THEN GetResponse(api.body)
                                         ELSE None,
                            !.ended = Some(DatetimeOf(ended)),
                            !.before = fs, !.fs = fs]
    IN  IF api.kind # "json"
        THEN Raise(here, api.kind)
        ELSE IF GetResponse(api.body) = None
        THEN ReadLatest(fs, here.latest_csv_name, here)
        ELSE OpenCsv(fs, here, torn)

\* An execution that no step of another thread interrupts.
load_data(fs, t25, t37, api, ended) ==
    LET begun == LoadBegin(fs, t25, t37)
        answered == LoadEnd(fs, begun, api, ended, 0)
    IN  IF begun.outcome # "waiting" THEN begun
        ELSE IF answered.outcome # "writing" THEN answered
        ELSE LoadClose(answered.fs, answered, "unparsable")

----------------------------------------------------------------------------
(* The script after load_data: lines 125-131 (URL parameter), lines 144-147 *)
(* (the caption), the slider of lines 154-160 and the aggregations of lines *)
(* 166-168 that the charts of lines 170-227 are drawn from.                 *)

\* the white space int() ignores around the number
IsSpace(c) ==
    \/ InRange(c, 9, 13)
    \/ InRange(c, 8192, 8202)
    \/ c \in {32, 133, 160, 5760, 8232, 8233, 8239, 8287, 12288}

RECURSIVE Strip(_)
Strip(s) ==
    IF s = <<>> THEN s
    ELSE IF IsSpace(s[1]) THEN Strip(Tail(s))
    ELSE IF IsSpace(s[Len(s)]) THEN Strip(SubSeq(s, 1, Len(s) - 1))
    ELSE s

RECURSIVE DecimalNumber(_, _)
DecimalNumber(s, acc) ==
    IF s = <<>> THEN acc
    ELSE IF s[1] = 95 THEN DecimalNumber(Tail(s), acc)
    ELSE DecimalNumber(Tail(s), acc * 10 + DecimalValue(s[1]))

\* int(text): None stands for ValueError. White space around, a sign, decimal
\* digits with single underscores between them.
IntOf(text) ==
    LET s == Strip(text)
        signed == s # <<>> /\ s[1] \in {43, 45}
        body == IF signed THEN Tail(s) ELSE s
        wellFormed ==
            /\ body # <<>>
            /\ \A i \in 1..Len(body) :
                  \/ IsDecimal(body[i])
                  \/ /\ body[i] = 95
                     /\ IsDecimal(At(body, i - 1))
                     /\ IsDecimal(At(body, i + 1))
    IN  IF ~wellFormed THEN None
        ELSE IF signed /\ s[1] = 45 THEN Some(0 - DecimalNumber(body, 0))
        ELSE Some(DecimalNumber(body, 0))

\* The ?departure_hour= values the script runs are tried with: none, "abc",
\* "23" and "99".
QueryParams == {None, Some(<<97, 98, 99>>), Some(<<50, 51>>), Some(<<57, 57>>)}

\* line 127: int() of each of these texts
IntOfQueryParams == [t \in {q[1] : q \in QueryParams \ {None}} |-> IntOf(t)]

\* The slider moves the user is tried with: none, or to the last hour.
SliderMoves == {None, Some(SliderMax)}

NewSession == [url_synced |-> FALSE, departure_hour |-> None]

\* What a script run leaves on the page: the dataset the charts were drawn
\* from, "charts" or the exception that ended the run and the line that
\* raised it. (Whether the page has the slider is kept with the session;
\* the slider's value is the session's departure_hour.)
View(seen, shown, line) == [seen |-> seen, shown |-> shown, line |-> line]

\* The URL parameters a script run of a session in state st can meet: the
\* script reads the parameter only while url_synced is unset.
QueryParamsFor(st) == IF st.url_synced THEN {None} ELSE QueryParams

\* The slider moves that can precede a script run of a session: only the
\* slider that the session's last script run drew (line 154) can be moved.
SliderMovesFor(drawn) == IF drawn THEN SliderMoves ELSE {None}

\* session_state after the slider move mv: the widget's key takes the value
\* before the rerun starts
Moved(st, mv) == IF mv = None THEN st ELSE [st EXCEPT !.departure_hour = mv]

\* Lines 166-227 on `frame`: groupby and agg raise KeyError on a column the
\* frame does not have (dep_time is there: line 146 has read it).
ChartsOf(frame) ==
    IF "dep_terminal" \notin frame.columns \/ "flight_iata" \notin frame.columns
    THEN View(None, "KeyError", 167)
    ELSE IF "airline_iata" \notin frame.columns
    THEN View(None, "KeyError", 168)
    ELSE View(Some(frame), "charts", 227)

\* Lines 125-227 of a script run whose load_data call gave `frame`, in a
\* session with state st and URL parameter q: the set of its possible
\* outcomes, each with the session_state, the page and whether the page
\* has the slider. A stored value outside the slider's range is either
\* refused by the slider or taken as it is: the widget is not part of this
\* repository.
RestOfScript(st, q, frame) ==
    LET Ends(state, page) == [st |-> state, view |-> page, slider |-> FALSE]
        \* lines 125-131: only KeyError is caught
        parsed == IF q = None THEN None
                  ELSE IF q[1] \in DOMAIN IntOfQueryParams THEN IntOfQueryParams[q[1]]
                  ELSE IntOf(q[1])
        synced == IF st.url_synced \/ q = None THEN st
                  ELSE [url_synced |-> TRUE, departure_hour |-> parsed]
        \* lines 154-160: the slider takes the stored value, or its minimum
        hour == IF synced.departure_hour = None THEN SliderMin
                ELSE synced.departure_hour[1]
        drawn == [st |-> [synced EXCEPT !.departure_hour = Some(hour)],
                  view |-> ChartsOf(frame), slider |-> TRUE]
        refused == Ends(synced, View(None, "StreamlitAPIException", 154))
    IN  IF ~st.url_synced /\ q # None /\ parsed = None
        THEN {Ends(st, View(None, "ValueError", 127))}
        ELSE IF "timestamp_api_call" \notin frame.columns
        THEN {Ends(synced, View(None, "KeyError", 144))}
        ELSE IF frame.rows = <<>>
        THEN {Ends(synced, View(None, "IndexError", 144))}
        ELSE IF "dep_time" \notin frame.columns
        THEN {Ends(synced, View(None, "KeyError", 146))}
        ELSE IF hour < SliderMin \/ hour > SliderMax
        THEN {refused, drawn}
        ELSE {drawn}

\* The outcomes of lines 125-227 in a session with state st whose load_data
\* call gave `frame`, over the URL parameters the run can meet.
ScriptOutcomes(st, frame) ==
    UNION { RestOfScript(st, q, frame) : q \in QueryParamsFor(st) }

----------------------------------------------------------------------------
(* SpecLoad: the cache directory, the clock, one server process at a time   *)
(* with its st.experimental_singleton cache, and the script runs of the     *)
(* browser sessions (page loads and slider changes), each in its own        *)
(* thread, that call load_data at line 118. A script run that finds the     *)
(* cache empty executes the body; while its request waits or its file is    *)
(* being written, the script run of another session can start, find the     *)
(* cache still empty and read the directory as it is then. Line 118 gives   *)
(* the script run its dataset (the one its call returned, which the cache   *)
(* takes then, or the one it found cached); lines 125-227 run on it later,  *)
(* and the thread of another session can store its dataset in between. (The *)
(* Streamlit version is not fixed by the repository: a singleton cache that *)
(* holds a lock makes the second run wait and then find the cache as the    *)
(* first left it, which are the behaviours here in which the second run     *)
(* starts after the first has ended.)                                       *)

Sessions == {"A", "B"}

\* The sessions are named in the order of their first script run in a
\* process: B's first comes after A's.
Earlier(s) == IF s = "B" THEN {"A"} ELSE {}

\* "lax_flights_x.csv": matches the glob, carries no date
UndatedName == GlobPrefix \o <<120>> \o GlobSuffix

\* The file a load on date d wrote from a one-record response.
CsvOfDay(d) ==
    to_csv(SetColumn(DataFrameOf(<<ApiRecord(d, 0, "AA1")>>), "timestamp_api_call",
                     <<"datetime", d[1], d[2], d[3], 0>>))

\* The directories a behaviour starts from: empty, yesterday's file alone,
\* with today's file, or with a file whose name carries no date.
InitialDirs ==
    { {},
      {CsvNameFor(AirportIata, PriorDate)},
      {CsvNameFor(AirportIata, PriorDate), CsvNameFor(AirportIata, StartDate)},
      {CsvNameFor(AirportIata, PriorDate), UndatedName} }

InitialContent(n) ==
    IF n = CsvNameFor(AirportIata, StartDate) THEN CsvOfDay(StartDate) ELSE CsvOfDay(PriorDate)

NoRun ==
    [latest_csv_name |-> None, latest_csv_date |-> None, date_today |-> StartDate,
     scanned |-> {}, requested |-> "none", response |-> None, api_calls |-> 0,
     issued |-> None, ended |-> None, stamp |-> None, read |-> None, wrote |-> None,
     before |-> <<>>, outcome |-> "none", error |-> "", ret |-> None]

FreshProcess ==
    [singleton |-> None, bodyRuns |-> 0, apiCalls |-> 0, csvWrites |-> 0, returns |-> 0,
     first |-> None]

\* no page drawn: a new process, or a step that drew none
NoView == View(None, "nothing", 0)

\* A session: st is its session_state, slider tells whether its page has
\* the slider (its last script run has drawn it at line 154 and no script
\* run of the session is under way), pending is what the thread of its
\* script run holds, opened whether it has started a script run.
NoSessions ==
    [s \in Sessions |->
        [st |-> NewSession, slider |-> FALSE, pending |-> None, opened |-> FALSE]]

\* session s may start a script run
MayRun(s) == sess[s].pending = None /\ \A t \in Earlier(s) : sess[t].opened

\* What the thread of a script run holds once line 118 has given it `data`.
Received(frame) == [outcome |-> "received", ret |-> frame]

\* the script run of session s is past line 118 and before line 125
AtLine125(s) == sess[s].pending # None /\ sess[s].pending[1].outcome = "received"

InitLoad ==
    /\ \E S \in InitialDirs : files = [n \in S |-> InitialContent(n)]
    /\ now = [date |-> StartDate, tod |-> 0]
    /\ proc = FreshProcess
    /\ sess = NoSessions
    /\ last = NoRun
    /\ started = 0
    /\ view = NoView
    /\ data = <<>>
    /\ call = [op |-> "none", hour |-> None, terminal |-> None]
    /\ result = None

\* Variant: the returned value is not kept.
SingletonAfter_NeverCached(cached, r) == None

\* The singleton cache takes a returned value (replacing the one it holds);
\* an exception leaves the cache as it is.
SingletonAfter(cached, r) == IF r.outcome = "returned" THEN r.ret ELSE cached

\* What the thread of an execution holds, of the record r of the execution
\* so far: the locals that the rest of the execution uses. While the request
\* waits these are all of them (latest_csv_date and the names glob found
\* are kept for the record of the execution); while the file is written,
\* the response, its stamp and the path; after the body, the value or the
\* value that line 118 receives.
Locals(r) ==
    LET none == [f \in DOMAIN r |-> IF f = "fs" THEN <<>> ELSE NoRun[f]]
    IN  IF r.outcome = "waiting" THEN [r EXCEPT !.before = <<>>, !.fs = <<>>]
        ELSE IF r.outcome = "writing"
        THEN [none EXCEPT !.outcome = r.outcome, !.date_today = r.date_today,
                          !.requested = r.requested, !.response = r.response,
                          !.api_calls = r.api_calls, !.issued = r.issued,
                          !.stamp = r.stamp, !.wrote = r.wrote]
        ELSE [none EXCEPT !.outcome = r.outcome, !.ret = r.ret]

\* A part of the body execution r of session s has run and has opened the
\* file (r.outcome = "writing") or ended the body (returned or raised): the
\* directory it leaves and the record kept of it. An exception leaves
\* load_data and, at line 118, the script: the script run ends with it, the
\* singleton cache and the session's state are as they were.
BodyEnded(s, r) ==
    /\ files' = r.fs
    /\ last' = [f \in DOMAIN NoRun |-> r[f]]
    /\ IF r.outcome = "raised"
       THEN /\ sess' = [sess EXCEPT ![s].pending = None, ![s].opened = TRUE]
            /\ view' = View(None, r.error, 118)
       ELSE /\ sess' = [sess EXCEPT ![s].pending = Some(Locals(r)), ![s].opened = TRUE]
            /\ view' = NoView

\* line 118, cache miss: a script run of session s finds the singleton cache
\* empty and the body of load_data starts (lines 25-42). With a cache file
\* of today the body ends here; otherwise the request is issued and the
\* thread waits for it. The date can turn between line 25 and line 37.
\* (No slider move precedes such a run: a slider is drawn only by a script
\* run that got a dataset, and the cache holds one from then on.)
ScriptRunLoad ==
    \E s \in Sessions, turn \in BOOLEAN :
        /\ MayRun(s)
        /\ proc.singleton = None
        /\ started < MaxBodyRuns
        /\ started' = started + 1
        /\ turn => DateLess(now.date, LastDate)
        /\ now' = IF turn THEN [date |-> NextDay(now.date), tod |-> 0] ELSE now
        /\ \E r \in {LoadBegin(files, now, now')} :
              /\ proc' = [proc EXCEPT !.bodyRuns = proc.bodyRuns + 1,
                                      !.apiCalls = proc.apiCalls + r.api_calls]
              /\ IF r.outcome = "waiting"
                 THEN /\ sess' = [sess EXCEPT ![s].pending = Some(Locals(r)),
                                                ![s].opened = TRUE]
                      /\ last' = NoRun
                      /\ view' = NoView
                      /\ UNCHANGED files
                 ELSE BodyEnded(s, r)
        /\ UNCHANGED <<data, call, result>>

\* The points at which another thread can find the file that stores the
\* response of api.
TornPointsOf(rec, api, ended) ==
    IF api.kind = "json" /\ GetResponse(api.body) # None
    THEN TornPoints(to_csv(StampedFrame(Stamped(
             [rec EXCEPT !.response = GetResponse(api.body),
                         !.ended = Some(DatetimeOf(ended))]))))
    ELSE {0}

\* lines 42-51: the request of session s ends and the body goes on, on the
\* directory as it is now: it raises, reads the latest file, or builds the
\* frame of the response and opens today's file for writing.
ResponseArrives ==
    \E s \in Sessions :
        /\ sess[s].pending # None
        /\ sess[s].pending[1].outcome = "waiting"
        /\ \E api \in ApiOutcomes(sess[s].pending[1].date_today) :
              \E torn \in TornPointsOf(sess[s].pending[1], api, now) :
                  \E r \in {LoadEnd(files, sess[s].pending[1], api, now, torn)} :
                      /\ BodyEnded(s, r)
                      /\ proc' = [proc EXCEPT
                                     !.csvWrites = proc.csvWrites
                                                     + (IF r.wrote = None THEN 0 ELSE 1)]
        /\ UNCHANGED <<now, started, data, call, result>>

\* lines 51-62: to_csv of session s writes the content, closes the file and
\* the body ends.
CsvWritten ==
    \E s \in Sessions :
        /\ sess[s].pending # None
        /\ sess[s].pending[1].outcome = "writing"
        /\ \E garble \in (IF Longer(files[sess[s].pending[1].wrote[1]],
                                     to_csv(StampedFrame(sess[s].pending[1])))
                           THEN Garbles ELSE {""}) :
              \E r \in {LoadClose(files, sess[s].pending[1], garble)} :
                  BodyEnded(s, r)
        /\ UNCHANGED <<now, proc, started, data, call, result>>

\* line 118, the call returns: the dataset is put in the singleton cache and
\* is the script's `data`.
LoadReturns ==
    \E s \in Sessions :
        /\ sess[s].pending # None
        /\ sess[s].pending[1].outcome = "returned"
        /\ \E r \in {sess[s].pending[1]} :
              /\ proc' = [proc EXCEPT
                             !.singleton = SingletonAfter(proc.singleton, r),
                             !.returns = proc.returns + 1,
                             !.first = IF proc.first = None THEN r.ret ELSE proc.first]
              /\ sess' = [sess EXCEPT ![s].pending = Some(Received(r.ret))]
        /\ last' = NoRun
        /\ view' = NoView
        /\ UNCHANGED <<files, now, started, data, call, result>>

\* line 118, cache hit: the body is skipped and the cached dataset is the
\* script's `data`. The script run is a page load or the rerun that follows
\* a slider move; the page is drawn anew.
ScriptRunCached ==
    \E s \in Sessions, mv \in SliderMoves :
        /\ MayRun(s)
        /\ mv \in SliderMovesFor(sess[s].slider)
        /\ proc.singleton # None
        /\ sess' = [sess EXCEPT ![s].st = Moved(@, mv),
                                  ![s].slider = FALSE,
                                  ![s].pending = Some(Received(proc.singleton)),
                                  ![s].opened = TRUE]
        /\ last' = NoRun
        /\ view' = NoView
        /\ UNCHANGED <<files, now, proc, started, data, call, result>>

\* lines 125-227: the script run of session s goes on with the dataset that
\* line 118 gave it, whatever the singleton cache holds by now.
ScriptRest ==
    \E s \in Sessions :
        /\ AtLine125(s)
        /\ \E out \in ScriptOutcomes(sess[s].st, sess[s].pending[1].ret[1]) :
              /\ view' = out.view
              /\ sess' = [sess EXCEPT ![s].st = out.st, ![s].slider = out.slider,
                                        ![s].pending = None]
        /\ last' = NoRun
        /\ UNCHANGED <<files, now, proc, started, data, call, result>>

Midnight ==
    /\ DateLess(now.date, LastDate)
    /\ now' = [date |-> NextDay(now.date), tod |-> 0]
    /\ last' = NoRun
    /\ view' = NoView
    /\ UNCHANGED <<files, proc, sess, started, data, call, result>>

\* The server process ends and a new one starts: the singleton cache, the
\* sessions and the threads are lost, a file that was being written stays
\* as it is.
Restart ==
    /\ proc # FreshProcess
    /\ proc' = FreshProcess
    /\ sess' = NoSessions
    /\ view' = NoView
    /\ last' = NoRun
    /\ UNCHANGED <<files, now, started, data, call, result>>

NextLoad ==
    \/ ScriptRunLoad
    \/ ResponseArrives
    \/ CsvWritten
    \/ LoadReturns
    \/ ScriptRunCached
    \/ ScriptRest
    \/ Midnight
    \/ Restart

SpecLoad == InitLoad /\ [][NextLoad]_vars

----------------------------------------------------------------------------
(* Properties of load_data, stated on the record of the execution that      *)
(* ended in the last step: last.scanned are the names glob found at line 26,*)
(* last.before is the directory that this part of the execution found (the  *)
(* one it scanned or the one it read at the end of its request; for a part  *)
(* that opens or writes the execution's file, the other files of the        *)
(* directory), and `files` the directory it left. For a step that opened    *)
(* the file, `last` is the record of the execution so far; the record of an *)
(* execution that ends by writing its file holds what Locals kept of it.    *)

Ran == last.outcome \in {"returned", "raised"}

\* the step just taken opened today's file for writing
Opened == last.outcome = "writing"

\* the API answered with JSON whose `response` is null or absent
NoResponse == last.requested = "json" /\ last.response = None

\* the request raised, or its body was not JSON
ApiFailed == last.requested \in {"ConnectionError", "JSONDecodeError"}

\* the API answered with a non-empty `response` array
NonEmptyResponse ==
    /\ last.requested = "json"
    /\ last.response # None
    /\ last.response[1] # <<>>

\* the frame a cache file holds, with its two time columns as datetimes
DatasetOfFile(csv) ==
    [columns |-> csv.header,
     rows |-> [i \in DOMAIN csv.lines |->
                 [c \in csv.header |->
                     IF c \in {"dep_time", "timestamp_api_call"}
                     THEN <<"datetime", csv.lines[i][c][2], csv.lines[i][c][3],
                            csv.lines[i][c][4], csv.lines[i][c][5]>>
                     ELSE csv.lines[i][c]]]]

\* "lax_flights_YYYYMMDD.csv" for date d, spelled out
ExpectedCsvName(d) == GlobPrefix \o strftime(d) \o GlobSuffix

\* C2: when today's cache is absent and the API request fails (network error
\* or a body that is not JSON) while a latest cache file exists, load_data
\* returns that file's dataset and does not raise.
C2_ApiFailureFallsBack ==
    (Ran /\ last.api_calls > 0 /\ ApiFailed /\ last.latest_csv_name # None)
        => /\ last.outcome = "returned"
           /\ last.ret = Some(DatasetOfFile(last.before[last.latest_csv_name[1]]))

\* C3: when the latest cache file predates today and the API answers with
\* `response` null or absent, load_data returns the dataset of that stale
\* file instead of raising or returning an empty dataset.
C3_NoResponseReturnsStale ==
    (/\ Ran
     /\ last.latest_csv_date # None
     /\ DateLess(last.latest_csv_date[1], last.date_today)
     /\ last.api_calls > 0
     /\ NoResponse)
        => /\ last.outcome = "returned"
           /\ last.ret = Some(DatasetOfFile(last.before[last.latest_csv_name[1]]))
           /\ last.ret[1].rows # <<>>

\* C4: with no cache file matching the pattern and no response from the API,
\* load_data raises to its caller: no dataset is returned and no file is
\* written.
C4_NoCacheNoResponseRaises ==
    (Ran /\ last.scanned = {} /\ last.api_calls > 0 /\ NoResponse)
        => /\ last.outcome = "raised"
           /\ last.ret = None
           /\ last.wrote = None
           /\ files = last.before

C4_Witness ==
    /\ Ran
    /\ last.scanned = {}
    /\ DOMAIN last.before = {}
    /\ last.api_calls = 1
    /\ NoResponse
    /\ last.error = "ValueError"
    /\ last.ret = None
    /\ view = View(None, "ValueError", 118)
    /\ proc.bodyRuns = 2

\* C5: when the matching file with the greatest name carries today's date
\* (the date read at line 25), load_data reads that file and makes no network
\* call; and no execution makes more than one API call. (Stated where the
\* execution ends or opens its file: the names glob found are known there.)
C5_FreshCacheNoNetwork ==
    (Ran \/ Opened) =>
        /\ last.api_calls <= 1
        /\ \A n \in last.scanned :
              (/\ \A m \in last.scanned : m = n \/ LexLess(m, n)
               /\ n = ExpectedCsvName(last.date_today))
                  => /\ last.api_calls = 0
                     /\ last.read = Some(n)
                     /\ last.wrote = None
                     /\ files = last.before
                     /\ last.outcome = "returned"
                            => last.ret = Some(DatasetOfFile(last.before[n]))

C5_Witness ==
    /\ Ran
    /\ last.latest_csv_date = Some(last.date_today)
    /\ last.read = Some(ExpectedCsvName(last.date_today))
    /\ last.outcome = "returned"
    /\ last.api_calls = 0
    /\ Cardinality(last.scanned) >= 2

\* C6: on a non-empty API response load_data returns the frame built from
\* the response, stamped with the time the call was issued (line 37), and
\* writes one file named lax_flights_<today>.csv, today being the date read
\* at line 25, which then begins with the returned dataset; both where it
\* opens that file and where it writes it, every other file of the directory
\* is kept as it was and none is deleted.
C6_ResponseStoredAndReturned ==
    /\ (Opened /\ NonEmptyResponse)
          => /\ last.wrote = Some(ExpectedCsvName(last.date_today))
             /\ DOMAIN files = DOMAIN last.before \cup {ExpectedCsvName(last.date_today)}
             /\ \A n \in DOMAIN last.before :
                   n # ExpectedCsvName(last.date_today) => files[n] = last.before[n]
    /\ (Ran /\ last.api_calls > 0 /\ NonEmptyResponse)
        => /\ last.outcome = "returned"
           /\ Len(last.ret[1].rows) = Len(last.response[1])
           /\ \A i \in DOMAIN last.ret[1].rows :
                 /\ last.ret[1].rows[i]["timestamp_api_call"] = last.issued[1]
                 /\ last.ret[1].rows[i]["flight_iata"]
                        = last.response[1][i]["flight_iata"]
                 /\ last.ret[1].rows[i]["dep_time"][1] = "datetime"
                 /\ Tail(last.ret[1].rows[i]["dep_time"])
                        = Tail(last.response[1][i]["dep_time"])
           /\ last.wrote = Some(ExpectedCsvName(last.date_today))
           /\ DOMAIN files = DOMAIN last.before \cup {ExpectedCsvName(last.date_today)}
           /\ \A n \in DOMAIN last.before :
                 n # ExpectedCsvName(last.date_today) => files[n] = last.before[n]
           /\ DatasetOfFile(files[ExpectedCsvName(last.date_today)]) = last.ret[1]

C6_Witness ==
    /\ Ran
    /\ last.api_calls = 1
    /\ NonEmptyResponse
    /\ last.outcome = "returned"
    /\ <<last.issued[1][2], last.issued[1][3], last.issued[1][4]>> # last.date_today
    /\ \E n \in DOMAIN last.before : n = ExpectedCsvName(PriorDate)
    /\ last.wrote # None

\* C10: a call that writes today's cache file returns a dataset, and a later
\* call on the same date reads that file and returns a dataset without a
\* network call, for every non-null response, the empty array included.
C10_WrittenCacheIsUsable ==
    /\ (Ran /\ last.wrote # None) => last.outcome = "returned"
    /\ (Ran /\ ExpectedCsvName(last.date_today) \in last.scanned)
          => /\ last.outcome = "returned"
             /\ last.api_calls = 0
             /\ last.read = Some(ExpectedCsvName(last.date_today))


\* C7 as stated: in one process the body of load_data runs at most once, so
\* at most one API call and one cache write happen, and every script run
\* that draws charts sees the dataset of the first one.
C7_BodyRunsAtMostOnce ==
    /\ proc.bodyRuns <= 1
    /\ proc.apiCalls <= 1
    /\ proc.csvWrites <= 1
    /\ view.shown = "charts" => view.seen = proc.first

\* no execution of the body is under way, and none has a value to store
Quiet == \A s \in Sessions : sess[s].pending = None \/ AtLine125(s)

\* C7 amended: once a call of load_data has returned a dataset in a process,
\* no script run that starts afterwards executes the body or calls the API
\* (also across a change of date), and the cache is never emptied. Line 118
\* gives every script run the dataset that is cached as the run passes it
\* (the one its own call returned or the one it found cached), the run keeps
\* that dataset and, if it draws charts, draws them from it, also when the
\* cache holds another dataset by then: an execution that was already under
\* way may still end, write its file and replace the cached dataset. Once
\* none is under way the directory, the counters and the cached dataset stay
\* as they are until the process restarts.
C7_NoBodyAfterReturn ==
    /\ [](/\ proc.apiCalls <= proc.bodyRuns
          /\ proc.csvWrites <= proc.apiCalls
          /\ proc.returns > 0 => proc.singleton # None
          /\ (view.shown = "charts" \/ \E s \in Sessions : AtLine125(s))
                => proc.singleton # None)
    /\ [][(proc.returns > 0 /\ proc' # FreshProcess) =>
            /\ proc'.bodyRuns = proc.bodyRuns
            /\ proc'.apiCalls = proc.apiCalls
            /\ Quiet => (proc' = proc /\ files' = files)]_vars
    /\ [][\A s \in Sessions :
            /\ (~AtLine125(s) /\ AtLine125(s)')
                  => sess'[s].pending[1].ret = proc'.singleton
            /\ (AtLine125(s) /\ AtLine125(s)') => sess'[s].pending = sess[s].pending
            /\ (AtLine125(s) /\ ~AtLine125(s)' /\ view'.shown = "charts")
                  => view'.seen = sess[s].pending[1].ret]_vars

C7_Witness ==
    /\ proc.returns = 2
    /\ proc.bodyRuns = 2
    /\ proc.apiCalls = 2
    /\ proc.csvWrites = 2
    /\ proc.singleton # proc.first
    /\ Quiet
    \* the last script run was a rerun after a slider move; it drew its
    \* charts from the dataset it found cached, which another session's
    \* execution has replaced since
    /\ view.shown = "charts"
    /\ view.seen = proc.first
    /\ \E s \in Sessions :
          /\ sess[s].st = [url_synced |-> FALSE, departure_hour |-> Some(SliderMax)]
          /\ sess[s].pending = None

----------------------------------------------------------------------------
(* Properties of the aggregation functions, stated on the last call.        *)

\* the rows of df that the given hour and the given terminal select
Selected(df, hour, terminal) ==
    SelectSeq(df, LAMBDA r :
        /\ hour # None => (r.dep_time # None /\ r.dep_time[1].hour = hour[1])
        /\ terminal # None => (r.dep_terminal # None /\ r.dep_terminal[1] = terminal[1]))

RECURSIVE SumUpTo(_, _)
SumUpTo(f, n) == IF n < 0 THEN 0 ELSE f[n] + SumUpTo(f, n - 1)

\* C1: filter(dataset, hour, terminal) is exactly the records whose departure
\* hour equals the given hour (any of 0..23) and whose terminal equals the
\* given terminal; an omitted filter restricts nothing.
C1_FilterKeepsExactlyMatches ==
    call.op = "filter_data" => result = Selected(data, call.hour, call.terminal)

\* C8: for every hour and optional terminal the histogram has the 60 buckets
\* 0..59, bucket m counts the rows of filter_data's result whose departure
\* minute is m, the buckets sum to the number of those rows with a valid
\* timestamp, and an empty subset gives 60 zeros.
C8_HistogramCountsFilteredRows ==
    call.op = "calculate_data_by_hour" =>
        LET kept == filter_data(data, call.hour, call.terminal)
            valid == {i \in DOMAIN kept : kept[i].dep_time # None}
        IN  /\ DOMAIN result = 0..59
            /\ \A m \in 0..59 :
                  result[m] = Cardinality({i \in valid : kept[i].dep_time[1].minute = m})
            /\ SumUpTo(result, 59) = Cardinality(valid)
            /\ kept = <<>> => \A m \in 0..59 : result[m] = 0

C8_Witness ==
    /\ call.op = "calculate_data_by_hour"
    /\ call.hour = Some(10)
    /\ call.terminal = Some("B")
    /\ Len(data) = 2
    /\ data[1].flight_iata = data[2].flight_iata
    /\ data[1].dep_terminal # data[2].dep_terminal
    /\ result[59] = 1
    /\ SumUpTo(result, 59) = 1

\* C9: terminal_summary(dataset, hour) has one row per non-null terminal
\* among the records whose departure hour equals hour, with the number of
\* distinct flight identifiers among those records at that terminal.
C9_TerminalSummaryOfHour ==
    (call.op = "group_data_by_terminal" /\ call.hour # None) =>
        LET kept == Selected(data, call.hour, None)
            terms == {kept[i].dep_terminal[1] :
                        i \in {j \in DOMAIN kept : kept[j].dep_terminal # None}}
        IN  result =
              {[dep_terminal |-> t,
                count_flights |->
                    Cardinality({kept[i].flight_iata[1] :
                        i \in {j \in DOMAIN kept :
                                 /\ kept[j].dep_terminal = Some(t)
                                 /\ kept[j].flight_iata # None}})] : t \in terms}

====
